---------------------------- MODULE Spec2Model ----------------------------
(***************************************************************************)
(* A model of tools/metagenerator.py: the scan of the registry directory,  *)
(* the canonical index, the reconciliation of the descriptor's references  *)
(* against it, the report, and the update of the descriptor file.          *)
(*                                                                         *)
(* A Python string is a sequence of one-character strings, so that strip,  *)
(* rsplit, startswith, endswith and the ordering of sorted() are computed. *)
(***************************************************************************)
EXTENDS Integers, Sequences, FiniteSets

(***************************************************************************)
(* Bounds of the model.                                                    *)
(***************************************************************************)
MaxRuns == 2        \* successive runs of the tool in one behaviour
MaxMeta == 2        \* root children of the descriptor document
MaxFiles == 2       \* entries of the registry directory

(***************************************************************************)
(* Strings.                                                                *)
(***************************************************************************)
\* The characters used, in code point order (the order of str comparison).
CharOrder ==
    << " ", "-", ".", "/", "0", "1", "2", "D", "a", "b", "c", "d", "e",
       "f", "h", "i", "l", "m", "n", "o", "s", "t", "u", "x", "y", "z", "{", "}" >>

Code(c) == CHOOSE i \in 1..Len(CharOrder) : CharOrder[i] = c

\* s < t for Python strings.
LexLess(s, t) ==
    \E i \in 1..(Len(t)) :
        /\ i <= Len(s) + 1
        /\ \A j \in 1..(i - 1) : s[j] = t[j]
        /\ \/ i = Len(s) + 1
           \/ (i <= Len(s) /\ Code(s[i]) < Code(t[i]))

\* sorted(S) for a set of strings.
RECURSIVE Sorted(_)
Sorted(S) ==
    IF S = {} THEN << >>
    ELSE LET m == CHOOSE x \in S : \A y \in S \ {x} : LexLess(x, y)
         IN  << m >> \o Sorted(S \ {m})

IsWhite(c) == c = " "

\* str.strip()
RECURSIVE Strip(_)
Strip(s) ==
    IF s = << >> THEN s
    ELSE IF IsWhite(Head(s)) THEN Strip(Tail(s))
    ELSE IF IsWhite(s[Len(s)]) THEN Strip(SubSeq(s, 1, Len(s) - 1))
    ELSE s

\* str.startswith / str.endswith
StartsWith(s, p) == Len(p) <= Len(s) /\ SubSeq(s, 1, Len(p)) = p
EndsWith(s, p) ==
    Len(p) <= Len(s) /\ SubSeq(s, Len(s) - Len(p) + 1, Len(s)) = p

\* s.rsplit('-', 2)[0]: the text before the second hyphen from the right,
\* before the only hyphen when there is one, and s itself when there is none.
RSplitHead(s) ==
    LET hy == {i \in 1..Len(s) : s[i] = "-"}
    IN  IF hy = {} THEN s
        ELSE LET last == CHOOSE i \in hy : \A j \in hy : j <= i
                 rest == hy \ {last}
                 cut  == IF rest = {} THEN last
                         ELSE CHOOSE i \in rest : \A j \in rest : j <= i
             IN  SubSeq(s, 1, cut - 1)

\* The orders in which a Python set may be iterated.
Orders(S) ==
    {o \in [1..Cardinality(S) -> S] : \A i, j \in DOMAIN o : o[i] = o[j] => i = j}

SeqsUpTo(S, n) == UNION {[1..k -> S] : k \in 0..n}

Range(f) == {f[i] : i \in DOMAIN f}

(***************************************************************************)
(* Ordered dictionaries (dict, defaultdict(list)): a sequence of           *)
(* [k, v] records in insertion order.                                      *)
(***************************************************************************)
DictKeys(m) == {m[i].k : i \in DOMAIN m}
DictHas(m, key) == key \in DictKeys(m)
DictGet(m, key) == m[CHOOSE i \in DOMAIN m : m[i].k = key].v
\* m[key].append(x) on a defaultdict(list)
DictAppend(m, key, x) ==
    IF DictHas(m, key)
    THEN [i \in DOMAIN m |->
            IF m[i].k = key THEN [k |-> key, v |-> Append(m[i].v, x)] ELSE m[i]]
    ELSE Append(m, [k |-> key, v |-> << x >>])
\* m[key] = value on a dict
DictSet(m, key, value) ==
    IF DictHas(m, key)
    THEN [i \in DOMAIN m |->
            IF m[i].k = key THEN [k |-> key, v |-> value] ELSE m[i]]
    ELSE Append(m, [k |-> key, v |-> value])

(***************************************************************************)
(* Names and texts of the inputs.                                          *)
(***************************************************************************)
SchemesPrefix == << "s", "c", "h", "e", "m", "e", "s" >>
XmlSuffix == << ".", "x", "m", "l" >>
AdditionalDefinitions ==
    << "a", "d", "d", "i", "t", "i", "o", "n", "a", "l", "D", "e", "f", "i",
       "n", "i", "t", "i", "o", "n", "s" >> \o XmlSuffix
SchemeTag == << "s", "c", "h", "e", "m", "e" >>

\* Directory entries: two selected by the prefix rule, one by the exact
\* name, one not selected.
EntryNames ==
    { SchemesPrefix \o << "-", "a" >> \o XmlSuffix,
      SchemesPrefix \o XmlSuffix,
      AdditionalDefinitions,
      << "m", "y" >> \o SchemesPrefix \o XmlSuffix }

\* os.path.join(data_dir, entry); os.path.relpath leaves a normalised
\* relative path as it is.
PathJoin(dir, entry) == dir \o << "/" >> \o entry

\* Elements of a registry document. elem.attrib.get(name) of an absent
\* attribute is None, which the code tells from "" nowhere (it tests only
\* truthiness): both are << >> here.
Elem(tag, canonicalUri, canonicaluri, uri) ==
    [tag |-> tag, canonicalUri |-> canonicalUri,
     canonicaluri |-> canonicaluri, uri |-> uri]

ElemA == Elem(SchemeTag, << "a" >>, << >>, << >>)
ElemB == Elem(<< "{", "n", "}" >> \o SchemeTag, << >>, << >>,
              << "b", "-", "1", "-", "1" >>)
ElemA20 == Elem(SchemeTag, << >>, << " ", "a", "-", "2", "-", "0", " " >>,
                << "z", "-", "1" >>)
ElemSub == Elem(<< "s", "u", "b" >> \o SchemeTag, << "c" >>, << >>, << >>)
ElemPlural == Elem(SchemeTag \o << "s" >>, << "d" >>, << >>, << >>)

\* A registry document: the elements whose start tags precede the first
\* structural error, and whether there is no such error.
Doc(elems, wellFormed) == [elems |-> elems, wellFormed |-> wellFormed]

\* The registry documents of the full runs.
CoreDocs ==
    { Doc(<< ElemA, ElemB >>, TRUE),
      Doc(<< ElemA20 >>, TRUE),
      Doc(<< ElemB, ElemA >>, FALSE) }

\* The registry documents of the scans.
RegistryDocs ==
    CoreDocs \cup
    { Doc(<< >>, TRUE),
      Doc(<< ElemA >>, TRUE),
      Doc(<< ElemA, ElemA >>, TRUE),
      Doc(<< ElemA, ElemSub >>, TRUE),
      Doc(<< ElemPlural, ElemB >>, TRUE),
      Doc(<< ElemA20, ElemB >>, FALSE),
      Doc(<< >>, FALSE) }

\* The directories of at most n entries, each entry a document.
Listings(names, docs, n) ==
    UNION {[S -> docs] : S \in {T \in SUBSET names : Cardinality(T) <= n}}

DataDirs == { << "d" >>, << " ", "d" >> }

(***************************************************************************)
(* Registry Scanner and Canonical Index Builder.                           *)
(***************************************************************************)
\* The selection rule of find_scheme_files for one directory entry.
Selected(entry) ==
    \/ StartsWith(entry, SchemesPrefix) /\ EndsWith(entry, XmlSuffix)
    \/ entry = AdditionalDefinitions

\* A slip: the candidates returned in another order than sorted.
RECURSIVE Reversed(_)
Reversed(q) == IF q = << >> THEN q ELSE Append(Reversed(Tail(q)), Head(q))
find_scheme_files_unsorted(dir, entries) ==
    Reversed(Sorted({PathJoin(dir, e) : e \in {x \in entries : Selected(x)}}))

\* find_scheme_files: the sorted paths of the selected entries.
find_scheme_files(dir, entries) ==
    Sorted({PathJoin(dir, e) : e \in {x \in entries : Selected(x)}})

\* The test of lines 43 and 60 on an element's tag.
TagQualifies(tag) == EndsWith(tag, SchemeTag)

\* What the attributes of one element give (lines 45-54 and 61-67).
AttrUris(elem) ==
    LET canon == IF elem.canonicalUri # << >> THEN elem.canonicalUri
                 ELSE elem.canonicaluri
    IN  IF canon # << >> THEN {Strip(canon)}
        ELSE IF elem.uri # << >> THEN {RSplitHead(elem.uri)}
        ELSE {}

\* What one element adds to canonical_uris (lines 43-54 and 60-67).
ElemUris(elem) == IF TagQualifies(elem.tag) THEN AttrUris(elem) ELSE {}

SeqUris(elems) == UNION {ElemUris(elems[i]) : i \in DOMAIN elems}

Returned(uris) == [raised |-> FALSE, uris |-> uris]
Raised == [raised |-> TRUE, uris |-> {}]

\* A slip: the fallback swallows the error and returns what was read.
FullParseKeepsPartial(doc, canonical_uris) == Returned(canonical_uris)

\* The fallback of lines 57-67: ET.parse raises ParseError on a document
\* that is not well formed, and nothing catches it in parse_schemes_file.
FullParse(doc, canonical_uris) ==
    IF doc.wellFormed THEN Returned(canonical_uris \cup SeqUris(doc.elems))
    ELSE Raised

\* parse_schemes_file: iterparse yields the start events that precede the
\* error, then raises ParseError.
parse_schemes_file(doc) ==
    IF doc.wellFormed THEN Returned(SeqUris(doc.elems))
    ELSE FullParse(doc, SeqUris(doc.elems))

\* Lines 74-78: any exception of the parse leaves an empty set.
CaughtUris(doc) ==
    LET res == parse_schemes_file(doc)
    IN  IF res.raised THEN {} ELSE res.uris

\* Lines 79-80 for one file: its path appended under each identifier, in the
\* order `order` of the iteration of the set.
RECURSIVE AppendAll(_, _, _)
AppendAll(m, order, path) ==
    IF order = << >> THEN m
    ELSE AppendAll(DictAppend(m, Head(order), path), Tail(order), path)

(***************************************************************************)
(* Descriptor Reader.                                                      *)
(***************************************************************************)
\* A root child of the descriptor, in the fpml namespace: a schemeDefault
\* with the text of its schemeUri child (<< >>: no child, or no text), or a
\* schemes element with its text.
MetaElem(tag, text) == [tag |-> tag, text |-> text]

MetaElems ==
    { MetaElem("schemeDefault", << " ", "a", "-", "2", "-", "0", " " >>),
      MetaElem("schemeDefault", << "b", "-", "2", "-", "0" >>),
      MetaElem("schemeDefault", << "z", "-", "1" >>),
      MetaElem("schemes", << " ", "d", "/" >> \o AdditionalDefinitions) }

\* parse_meta_scheme_uris: the trimmed texts, duplicates kept.
RECURSIVE parse_meta_scheme_uris(_)
parse_meta_scheme_uris(doc) ==
    IF doc = << >> THEN << >>
    ELSE LET e == Head(doc)
             rest == parse_meta_scheme_uris(Tail(doc))
         IN  IF e.tag = "schemeDefault" /\ e.text # << >>
             THEN << Strip(e.text) >> \o rest
             ELSE rest

(***************************************************************************)
(* Files.                                                                  *)
(***************************************************************************)
Missing == [kind |-> "missing", doc |-> << >>]
Partial == [kind |-> "partial", doc |-> << >>]
Whole(doc) == [kind |-> "complete", doc |-> doc]

NoReport ==
    [foundSchemeFiles |-> << >>, matched |-> << >>, unmatched |-> << >>,
     addedSchemesEntries |-> << >>]

VARIABLES
    dataDir,        \* --data-dir
    listing,        \* the directory: entry name -> document
    update,         \* --update-meta
    backup,         \* --backup
    metaFile,       \* the file at the descriptor path
    bakFile,        \* the file at <descriptor path>.bak
    reportFile,     \* the file at the report path
    pc,             \* the position of the run
    run,            \* the number of the run
    files,          \* build_canonical_map: files
    idx,            \* build_canonical_map: the position of the loop over files
    mapping,        \* the canonical index
    tree,           \* the parsed descriptor, as mutated
    report,         \* main: report
    files_that_match,
    added,          \* ensure_fpml_schemes_in_meta: added
    renamed,        \* whether os.replace moved the descriptor in this run
    orig,           \* the descriptor document at the start of the run
    bak0,           \* the .bak file at the start of the run
    prev            \* the descriptor at the start of, and the report of, the previous run

vars ==
    << dataDir, listing, update, backup, metaFile, bakFile, reportFile, pc, run,
       files, idx, mapping, tree, report, files_that_match, added, renamed,
       orig, bak0, prev >>

inputs == << dataDir, listing, update, backup >>
scanVars == << files, idx, mapping >>
mainVars == << tree, report, files_that_match, added, renamed >>
history == << orig, bak0, prev >>

NoPrev == [orig |-> << >>, report |-> NoReport, any |-> FALSE]

InitRest(meta) ==
    /\ metaFile = Whole(meta)
    /\ bakFile = Missing
    /\ reportFile = Missing
    /\ pc = "main"
    /\ run = 1
    /\ files = << >>
    /\ idx = 1
    /\ mapping = << >>
    /\ tree = << >>
    /\ report = NoReport
    /\ files_that_match = {}
    /\ added = << >>
    /\ renamed = FALSE
    /\ orig = meta
    /\ bak0 = Missing
    /\ prev = NoPrev

CoreNames == { SchemesPrefix \o << "-", "a" >> \o XmlSuffix, AdditionalDefinitions }

Init ==
    /\ dataDir \in DataDirs
    /\ listing \in Listings(CoreNames, CoreDocs, MaxFiles)
    /\ update \in BOOLEAN
    /\ backup \in BOOLEAN
    /\ \E meta \in SeqsUpTo(MetaElems, MaxMeta) : InitRest(meta)

InitScan ==
    /\ dataDir = << "d" >>
    /\ listing \in Listings(EntryNames, RegistryDocs, MaxFiles)
    /\ update = FALSE
    /\ backup = FALSE
    /\ InitRest(<< >>)

ReadDoc(path) ==
    listing[CHOOSE e \in DOMAIN listing : PathJoin(dataDir, e) = path]

\* Lines 71-72.
FindSchemeFiles ==
    /\ pc = "main"
    /\ files' = find_scheme_files(dataDir, DOMAIN listing)
    /\ idx' = 1
    /\ mapping' = << >>
    /\ pc' = "scan"
    /\ UNCHANGED << inputs, metaFile, bakFile, reportFile, run, mainVars, history >>

\* Lines 73-80: one turn of the loop over files.
ScanFile ==
    /\ pc = "scan"
    /\ idx <= Len(files)
    /\ \E order \in Orders(CaughtUris(ReadDoc(files[idx]))) :
           mapping' = AppendAll(mapping, order, files[idx])
    /\ idx' = idx + 1
    /\ UNCHANGED << inputs, metaFile, bakFile, reportFile, pc, run, files,
                    mainVars, history >>

\* A slip: the classification without the fallback lookup.
RECURSIVE ClassifyExactOnly(_, _, _)
ClassifyExactOnly(uris, index, acc) ==
    IF uris = << >> THEN acc
    ELSE LET su == Head(uris)
         IN  ClassifyExactOnly(Tail(uris), index,
                 IF DictHas(index, su)
                 THEN [matched |-> DictSet(acc.matched, su, DictGet(index, su)),
                       unmatched |-> acc.unmatched,
                       files |-> acc.files \cup Range(DictGet(index, su))]
                 ELSE [acc EXCEPT !.unmatched = Append(@, su)])

\* main, lines 161-175: the classification of the distinct references, in
\* sorted order. acc is [matched, unmatched, files].
RECURSIVE Classify(_, _, _)
Classify(uris, index, acc) ==
    IF uris = << >> THEN acc
    ELSE LET su == Head(uris)
             heuristic == RSplitHead(su)
             hit(key) ==
                 [matched |-> DictSet(acc.matched, su, DictGet(index, key)),
                  unmatched |-> acc.unmatched,
                  files |-> acc.files \cup Range(DictGet(index, key))]
         IN  Classify(Tail(uris), index,
                 IF DictHas(index, su) THEN hit(su)
                 ELSE IF DictHas(index, heuristic) THEN hit(heuristic)
                 ELSE [acc EXCEPT !.unmatched = Append(@, su)])

Reconciled(scheme_uris, index) ==
    Classify(Sorted(Range(scheme_uris)), index,
             [matched |-> << >>, unmatched |-> << >>, files |-> {}])

\* Lines 146-175, after the loop of build_canonical_map has ended.
Reconcile ==
    /\ pc = "scan"
    /\ idx > Len(files)
    /\ LET res == Reconciled(parse_meta_scheme_uris(metaFile.doc), mapping)
       IN  /\ report' = [foundSchemeFiles |-> mapping,
                         matched |-> res.matched,
                         unmatched |-> res.unmatched,
                         addedSchemesEntries |-> << >>]
           /\ files_that_match' = res.files
           /\ pc' = IF update /\ res.files # {} THEN "ensure" ELSE "report"
    /\ tree' = metaFile.doc
    /\ added' = << >>
    /\ UNCHANGED << inputs, metaFile, bakFile, reportFile, run, scanVars,
                    renamed, history >>

\* A slip: every file appended, present already or not.
ensure_append_all(root, files_to_add) ==
    [tree |-> root \o [i \in 1..Len(files_to_add) |->
                          MetaElem("schemes", files_to_add[i])],
     added |-> files_to_add]

\* ensure_fpml_schemes_in_meta, lines 97-111: [tree, added].
ensure_append(root, files_to_add) ==
    LET existing ==
            {Strip(e.text) :
                e \in {x \in Range(root) : x.tag = "schemes" /\ x.text # << >>}}
        Absent(f) == f \notin existing
        new == SelectSeq(files_to_add, Absent)
    IN  [tree |-> root \o [i \in 1..Len(new) |-> MetaElem("schemes", new[i])],
         added |-> new]

\* A slip: the backup taken whether or not anything was added.
EnsureAlwaysBackup ==
    /\ pc = "ensure"
    /\ LET res == ensure_append(tree, Sorted(files_that_match))
       IN  /\ tree' = res.tree
           /\ added' = res.added
           /\ pc' = IF backup THEN "backup"
                    ELSE IF res.added = << >> THEN "report" ELSE "write"
    /\ UNCHANGED << inputs, metaFile, bakFile, reportFile, run, scanVars,
                    report, files_that_match, renamed, history >>

\* Lines 183-184 and 97-113.
Ensure ==
    /\ pc = "ensure"
    /\ LET res == ensure_append(tree, Sorted(files_that_match))
       IN  /\ tree' = res.tree
           /\ added' = res.added
           /\ pc' = IF res.added = << >> THEN "report"
                    ELSE IF backup THEN "backup" ELSE "write"
    /\ UNCHANGED << inputs, metaFile, bakFile, reportFile, run, scanVars,
                    report, files_that_match, renamed, history >>

\* Line 116: os.replace moves the descriptor to the .bak path.
ReplaceDone ==
    /\ pc = "backup"
    /\ bakFile' = metaFile
    /\ metaFile' = Missing
    /\ renamed' = TRUE
    /\ pc' = "write"
    /\ UNCHANGED << inputs, reportFile, run, scanVars, tree, report,
                    files_that_match, added, history >>

\* A slip: the failed rename ignored, with no copy.
ReplaceRaisesNoCopy ==
    /\ pc = "backup"
    /\ pc' = "write"
    /\ UNCHANGED << inputs, metaFile, bakFile, reportFile, run, scanVars,
                    mainVars, history >>

\* Lines 116-117: os.replace raises, and both files are as they were.
ReplaceRaises ==
    /\ pc = "backup"
    /\ pc' = "copy"
    /\ UNCHANGED << inputs, metaFile, bakFile, reportFile, run, scanVars,
                    mainVars, history >>

\* Line 120: shutil.copy2 opens the .bak path for writing.
CopyOpen ==
    /\ pc = "copy"
    /\ bakFile' = Partial
    /\ pc' = "copying"
    /\ UNCHANGED << inputs, metaFile, reportFile, run, scanVars, mainVars,
                    history >>

\* Line 120: shutil.copy2 has copied the descriptor.
CopyDone ==
    /\ pc = "copying"
    /\ bakFile' = metaFile
    /\ pc' = "write"
    /\ UNCHANGED << inputs, metaFile, reportFile, run, scanVars, mainVars,
                    history >>

\* Line 120: shutil.copy2 raises, which nothing catches.
CopyRaises ==
    /\ pc \in {"copy", "copying"}
    /\ pc' = "failed"
    /\ UNCHANGED << inputs, metaFile, bakFile, reportFile, run, scanVars,
                    mainVars, history >>

\* Line 122: tree.write opens the descriptor path for writing.
WriteOpen ==
    /\ pc = "write"
    /\ metaFile' = Partial
    /\ pc' = "writing"
    /\ UNCHANGED << inputs, bakFile, reportFile, run, scanVars, mainVars,
                    history >>

\* Line 122: tree.write has written the document.
WriteDone ==
    /\ pc = "writing"
    /\ metaFile' = Whole(tree)
    /\ pc' = "report"
    /\ UNCHANGED << inputs, bakFile, reportFile, run, scanVars, mainVars,
                    history >>

\* Lines 186-189.
WriteReport ==
    /\ pc = "report"
    /\ report' = [report EXCEPT !.addedSchemesEntries = added]
    /\ reportFile' = Whole(report')
    /\ pc' = "done"
    /\ UNCHANGED << inputs, metaFile, bakFile, run, scanVars, tree,
                    files_that_match, added, renamed, history >>

\* The tool is run again, with the same arguments, on the files as they are.
NextRun ==
    /\ pc = "done"
    /\ run < MaxRuns
    /\ run' = run + 1
    /\ pc' = "main"
    /\ files' = << >>
    /\ idx' = 1
    /\ mapping' = << >>
    /\ tree' = << >>
    /\ report' = NoReport
    /\ files_that_match' = {}
    /\ added' = << >>
    /\ renamed' = FALSE
    /\ orig' = metaFile.doc
    /\ bak0' = bakFile
    /\ prev' = [orig |-> orig, report |-> reportFile.doc, any |-> TRUE]
    /\ UNCHANGED << inputs, metaFile, bakFile, reportFile >>

\* The process is killed.
Crash ==
    /\ pc \notin {"done", "failed", "crashed"}
    /\ pc' = "crashed"
    /\ UNCHANGED << inputs, metaFile, bakFile, reportFile, run, scanVars,
                    mainVars, history >>

Next ==
    \/ FindSchemeFiles
    \/ ScanFile
    \/ Reconcile
    \/ Ensure
    \/ ReplaceDone
    \/ ReplaceRaises
    \/ CopyOpen
    \/ CopyDone
    \/ CopyRaises
    \/ WriteOpen
    \/ WriteDone
    \/ WriteReport
    \/ NextRun
    \/ Crash

Spec == Init /\ [][Next]_vars

NextScan == FindSchemeFiles \/ ScanFile

SpecScan == InitScan /\ [][NextScan]_vars

(***************************************************************************)
(* Properties.                                                             *)
(***************************************************************************)
NoDuplicates(q) == \A i, j \in DOMAIN q : q[i] = q[j] => i = j
Ascending(q) == \A i, j \in DOMAIN q : i < j => LexLess(q[i], q[j])

\* The files the loop of build_canonical_map has been through.
Scanned == {files[j] : j \in 1..(idx - 1)}
\* The identifiers under which the index lists a path.
KeysOf(path) ==
    {mapping[i].k : i \in {n \in DOMAIN mapping : path \in Range(mapping[n].v)}}
\* The positions of the run at which main has classified the references.
Reconciled_pcs ==
    {"ensure", "backup", "copy", "copying", "write", "writing", "report", "done"}

\* C7: at every point of the scan, every key of the index lists each path at
\* most once, lists exactly the scanned documents whose identifier set holds
\* the key, and lists them in ascending order of path; the scanned documents
\* are the selected entries of the directory.
C7_IndexInvariant ==
    pc = "scan" =>
        /\ NoDuplicates([i \in DOMAIN mapping |-> mapping[i].k])
        /\ Range(files) =
               {PathJoin(dataDir, e) : e \in {x \in DOMAIN listing : Selected(x)}}
        /\ DictKeys(mapping) = UNION {CaughtUris(ReadDoc(f)) : f \in Scanned}
        /\ \A i \in DOMAIN mapping :
               /\ NoDuplicates(mapping[i].v)
               /\ Ascending(mapping[i].v)
               /\ Range(mapping[i].v) =
                      {f \in Scanned : mapping[i].k \in CaughtUris(ReadDoc(f))}

\* Two documents with the same set of two identifiers have been scanned.
C7_Witness ==
    /\ pc = "scan"
    /\ idx > Len(files)
    /\ Len(files) = 2
    /\ CaughtUris(ReadDoc(files[1])) = CaughtUris(ReadDoc(files[2]))
    /\ Cardinality(CaughtUris(ReadDoc(files[1]))) = 2
    /\ \A i \in DOMAIN mapping : Len(mapping[i].v) = 2

\* C9 (as claimed): a scanned, well-formed document is listed under exactly
\* the identifiers of its elements whose tag, without its namespace, is
\* "scheme".
LocalName(tag) ==
    IF tag # << >> /\ Head(tag) = "{"
    THEN LET close == CHOOSE i \in DOMAIN tag :
                          tag[i] = "}" /\ \A j \in 1..(i - 1) : tag[j] # "}"
         IN  SubSeq(tag, close + 1, Len(tag))
    ELSE tag

C9_LocalNameEqualsScheme ==
    pc = "scan" =>
        \A f \in Scanned :
            LET doc == ReadDoc(f)
            IN  doc.wellFormed =>
                    KeysOf(f) =
                        UNION {AttrUris(doc.elems[i]) :
                                  i \in {n \in DOMAIN doc.elems :
                                            LocalName(doc.elems[n].tag) = SchemeTag}}

\* C4: a scanned document that is not well formed is listed under no key of
\* the index, a scanned well-formed document is listed under every
\* identifier of its elements, no run fails during the scan, and the report
\* of a run that ends holds the index.
C4_BadFileContributesNothing ==
    /\ pc # "main" =>
           \A f \in Scanned :
               LET doc == ReadDoc(f)
               IN  IF doc.wellFormed THEN KeysOf(f) = SeqUris(doc.elems)
                   ELSE KeysOf(f) = {}
    /\ pc = "failed" => idx > Len(files)
    /\ pc = "done" =>
           /\ idx > Len(files)
           /\ reportFile.kind = "complete"
           /\ reportFile.doc.foundSchemeFiles = mapping

\* A run has ended whose directory holds a document that is not well formed
\* and has identifiers before its error, and a well-formed one.
C4_Witness ==
    /\ pc = "done"
    /\ \E f \in Scanned :
           ~ReadDoc(f).wellFormed /\ SeqUris(ReadDoc(f).elems) # {}
    /\ \E f \in Scanned : ReadDoc(f).wellFormed /\ KeysOf(f) # {}

\* The distinct referenced identifiers of the descriptor of this run.
References == Range(parse_meta_scheme_uris(orig))
Occurrences(q, x) == Cardinality({i \in DOMAIN q : q[i] = x})

\* C2: once the references are classified, a reference r is a key of matched
\* iff r or r.rsplit('-', 2)[0] is a key of the index, its value is the
\* index's list of r when r is a key and of r.rsplit('-', 2)[0] otherwise;
\* any other reference is once in unmatched; matched and unmatched hold
\* references only, and unmatched is strictly ascending.
C2_Classification ==
    pc \in Reconciled_pcs =>
        /\ \A r \in References :
               LET exact == DictHas(mapping, r)
                   fallback == DictHas(mapping, RSplitHead(r))
               IN  /\ DictHas(report.matched, r) <=> (exact \/ fallback)
                   /\ exact => DictGet(report.matched, r) = DictGet(mapping, r)
                   /\ (~exact /\ fallback) =>
                          DictGet(report.matched, r) =
                              DictGet(mapping, RSplitHead(r))
                   /\ Occurrences(report.unmatched, r) =
                          IF exact \/ fallback THEN 0 ELSE 1
        /\ DictKeys(report.matched) \subseteq References
        /\ NoDuplicates([i \in DOMAIN report.matched |-> report.matched[i].k])
        /\ Range(report.unmatched) \subseteq References
        /\ Ascending(report.unmatched)

\* One reference is matched by the exact lookup although its fallback key is
\* in the index with another list, and another one by the fallback alone.
C2_Witness ==
    /\ pc = "done"
    /\ \E r \in References :
           /\ DictHas(mapping, r)
           /\ DictHas(mapping, RSplitHead(r))
           /\ DictGet(mapping, r) # DictGet(mapping, RSplitHead(r))
    /\ \E r \in References :
           /\ ~DictHas(mapping, r)
           /\ DictHas(report.matched, r)

\* The paths in the file list of at least one matched reference.
MatchedFiles == UNION {Range(report.matched[i].v) : i \in DOMAIN report.matched}
\* The trimmed texts of the schemes elements of the descriptor of this run.
PresentTexts == {Strip(e.text) : e \in {x \in Range(orig) : x.tag = "schemes"}}
SchemesOf(paths) == [i \in 1..Len(paths) |-> MetaElem("schemes", paths[i])]

\* C3: in a run that has ended, the added list of the report is, in a run
\* with the update flag, the sorted list of the matched files that are no
\* trimmed text of a schemes element of the descriptor, and empty otherwise;
\* the document is the descriptor followed by one schemes element per path
\* of that list, in that order.
C3_AddedFiles ==
    pc = "done" =>
        LET expected == IF update THEN Sorted(MatchedFiles \ PresentTexts)
                        ELSE << >>
        IN  /\ reportFile.doc.addedSchemesEntries = expected
            /\ tree = orig \o SchemesOf(expected)
            /\ metaFile = Whole(orig \o SchemesOf(expected))

\* An update has added one matched file and not the other, whose path the
\* descriptor held already, with white space around it.
C3_Witness ==
    /\ pc = "done"
    /\ update
    /\ Len(added) = 1
    /\ Cardinality(MatchedFiles) = 2
    /\ \E e \in Range(orig) :
           e.tag = "schemes" /\ e.text # Strip(e.text)
                             /\ Strip(e.text) \in MatchedFiles

\* C5: the descriptor file differs from the descriptor of the start of the
\* run only in a run with the update flag that adds an entry, the .bak file
\* differs from the one of the start of the run only in such a run with the
\* backup flag, and when such a run has ended the .bak file holds the
\* descriptor of the start of the run and the descriptor file the updated
\* document.
C5_PersistedMutation ==
    /\ metaFile # Whole(orig) => (update /\ added # << >>)
    /\ bakFile # bak0 => (update /\ backup /\ added # << >>)
    /\ (pc = "done" /\ update /\ added # << >>) => metaFile = Whole(tree)
    /\ (pc = "done" /\ update /\ backup /\ added # << >>) =>
           bakFile = Whole(orig)

\* A second run with both flags has ended that found nothing to add, after
\* a first run that wrote the descriptor and the .bak file.
C5_Witness ==
    /\ pc = "done"
    /\ run = 2
    /\ update
    /\ backup
    /\ added = << >>
    /\ bakFile.kind = "complete"
    /\ bakFile = bak0
    /\ bakFile # Whole(orig)

\* C10: in a run with the update and backup flags, the descriptor of the
\* start of the run is whole at the descriptor path or at the .bak path, and
\* the descriptor path is written to only once the .bak file holds it.
C10_OriginalNeverLost ==
    (update /\ backup) =>
        /\ metaFile = Whole(orig) \/ bakFile = Whole(orig)
        /\ (pc = "writing" \/ metaFile.kind = "partial") => bakFile = Whole(orig)

\* The write of the descriptor is under way after the copy fallback.
C10_Witness ==
    /\ update
    /\ backup
    /\ pc = "writing"
    /\ ~renamed
    /\ metaFile = Partial
    /\ bakFile = Whole(orig)

\* C8 (as claimed): when a run with the update and backup flags is killed
\* after os.replace has moved the descriptor, the descriptor path holds the
\* whole descriptor of the start of the run or the whole updated document.
C8_AtomicReplace ==
    (update /\ backup /\ renamed /\ pc = "crashed") =>
        metaFile \in {Whole(orig), Whole(tree)}

\* C1 (as claimed): a second run with the update flag, on the directory of
\* the first and the descriptor it left, adds nothing and leaves the
\* descriptor as it found it.
C1_Idempotent ==
    (update /\ run = 2 /\ pc = "done") =>
        /\ reportFile.doc.addedSchemesEntries = << >>
        /\ metaFile = Whole(orig)

\* C6 (as claimed): a second run that starts from the descriptor the first
\* started from writes the report the first wrote.
C6_Deterministic ==
    (run = 2 /\ pc = "done" /\ prev.any /\ prev.orig = orig) =>
        reportFile.doc = prev.report

============================================================================
